---- MODULE Spec2Model ----
(***************************************************************************)
(* Model of scripts/check-openssl.py: one call of `cargo tree -i openssl   *)
(* --workspace`, a three-way classification of its result, the printed     *)
(* lines and the process exit code.                                        *)
(*                                                                         *)
(* Text is a sequence of tokens (a token is an atomic piece of text), so   *)
(* that Python's substring test is a search for a contiguous subsequence.  *)
(* Each entry of `out` is one line written to the checker's standard       *)
(* output (print's trailing newline is the entry boundary).                *)
(***************************************************************************)
EXTENDS Integers, Sequences, FiniteSets, TLC

VARIABLES
    tool,       \* what `cargo tree` yields for the (unchanged) dependency graph
    pc,         \* position of the interpreter in check_openssl_dependency
    result,     \* <<>> before the call returns, <<CompletedProcess>> after
    out,        \* lines written to standard output, tagged with the writer
    exits,      \* arguments of the sys.exit calls made so far
    exitcode,   \* <<>> while running, <<code>> once the process has ended
    uncaught,   \* <<>> or <<name of the exception that ended the process>>
    calls,      \* number of subprocess.run calls issued by this run
    run,        \* ordinal of the current process invocation
    prev        \* <<>> or <<what the previous invocation observably did>>

vars == <<tool, pc, result, out, exits, exitcode, uncaught, calls, run, prev>>

----------------------------------------------------------------------------
(* Bounds *)
MaxErrLen == 4
MaxOutLen == 1
MaxRuns == 2

----------------------------------------------------------------------------
(* class Colors(StrEnum) *)
GREEN == "\\033[92m"
RED == "\\033[91m"
RESET == "\\033[0m"

(* string literals of check_openssl_dependency; the quote character in
   'openssl' stands for the backquote of the source, which a TLA+ string
   cannot hold *)
ForbiddenMsg == <<"Error: openssl is part of the dependencies tree">>
SuccessMsg == <<"Success: openssl is not part of the dependencies tree.">>
UnexpectedMsg == <<"Error: Unexpected error message.">>
NotFound == <<"package ID specification ", "'openssl'", " did not match any packages">>

(* the values the external tool can hand back *)
ReturnCodes == {0, 1, 101, 127}
ErrTokens == {"package ID specification ", "'openssl'", " did not match any packages",
              "error: ", "command not found"}
OutTokens == {"openssl v0.10.0"}
Exceptions == {"FileNotFoundError", "UnicodeDecodeError"}

SeqsUpTo(S, n) == UNION {[1..k -> S] : k \in 0..n}

ToolResults == [returncode : ReturnCodes,
                stdout : SeqsUpTo(OutTokens, MaxOutLen),
                stderr : SeqsUpTo(ErrTokens, MaxErrLen)]

----------------------------------------------------------------------------
(* needle in hay, as the operator in on Python str *)
ContainsPrefixOnly(needle, hay) ==
    /\ Len(hay) >= Len(needle)
    /\ SubSeq(hay, 1, Len(needle)) = needle

Contains(needle, hay) ==
    \E i \in 0..(Len(hay) - Len(needle)) : SubSeq(hay, i + 1, i + Len(needle)) = needle

(* print(x) *)
print(text) == [by |-> "print", text |-> text]

(* colored_print(message, color) *)
colored_print_noreset(message, color) ==
    [by |-> "colored_print", text |-> <<color>> \o message]

colored_print(message, color) ==
    [by |-> "colored_print", text |-> <<color>> \o message \o <<RESET>>]

(* the two conditions of the function *)
Line24StderrFirst(r) == r.returncode = 0 /\ ~Contains(NotFound, r.stderr)

Line24(r) == r.returncode = 0

Line30(r) == Contains(NotFound, r.stderr)

----------------------------------------------------------------------------
Init ==
    /\ tool \in ToolResults
    /\ pc = "L18"
    /\ result = <<>>
    /\ out = <<>>
    /\ exits = <<>>
    /\ exitcode = <<>>
    /\ uncaught = <<>>
    /\ calls = 0
    /\ run = 1
    /\ prev = <<>>

(* lines 18-22: subprocess.run returns a CompletedProcess *)
RunCargo ==
    /\ pc = "L18"
    /\ result' = <<tool>>
    /\ calls' = calls + 1
    /\ pc' = "L24"
    /\ UNCHANGED <<tool, out, exits, exitcode, uncaught, run, prev>>

(* lines 18-22: subprocess.run raises (cargo not on PATH, undecodable output);
   nothing catches it, the interpreter prints a traceback on standard error
   and the process ends with status 1 *)
RunCargoRaises ==
    /\ pc = "L18"
    /\ \E e \in Exceptions : uncaught' = <<e>>
    /\ calls' = calls + 1
    /\ exitcode' = <<1>>
    /\ pc' = "done"
    /\ UNCHANGED <<tool, result, out, exits, run, prev>>

(* lines 24-25 *)
ForbiddenStatus ==
    /\ pc = "L24"
    /\ Line24(result[1])
    /\ out' = Append(out, colored_print(ForbiddenMsg, RED))
    /\ pc' = "L26"
    /\ UNCHANGED <<tool, result, exits, exitcode, uncaught, calls, run, prev>>

(* line 26 *)
ForbiddenEchoStderr ==
    /\ pc = "L26"
    /\ out' = Append(out, print(result[1].stderr))
    /\ pc' = "L27"
    /\ UNCHANGED <<tool, result, exits, exitcode, uncaught, calls, run, prev>>

ForbiddenEcho ==
    /\ pc = "L26"
    /\ out' = Append(out, print(result[1].stdout))
    /\ pc' = "L27"
    /\ UNCHANGED <<tool, result, exits, exitcode, uncaught, calls, run, prev>>

(* line 27 *)
ForbiddenExitMissing ==
    /\ pc = "L27"
    /\ pc' = "L30"
    /\ UNCHANGED <<tool, result, out, exits, exitcode, uncaught, calls, run, prev>>

ForbiddenExit ==
    /\ pc = "L27"
    /\ exits' = Append(exits, 1)
    /\ exitcode' = <<1>>
    /\ pc' = "done"
    /\ UNCHANGED <<tool, result, out, uncaught, calls, run, prev>>

(* line 24, condition false *)
NotZero ==
    /\ pc = "L24"
    /\ ~Line24(result[1])
    /\ pc' = "L30"
    /\ UNCHANGED <<tool, result, out, exits, exitcode, uncaught, calls, run, prev>>

(* lines 30-31 *)
AbsentStatus ==
    /\ pc = "L30"
    /\ Line30(result[1])
    /\ out' = Append(out, colored_print(SuccessMsg, GREEN))
    /\ pc' = "ret"
    /\ UNCHANGED <<tool, result, exits, exitcode, uncaught, calls, run, prev>>

(* lines 30, 32-33 *)
UnexpectedStatus ==
    /\ pc = "L30"
    /\ ~Line30(result[1])
    /\ out' = Append(out, colored_print(UnexpectedMsg, RED))
    /\ pc' = "L34"
    /\ UNCHANGED <<tool, result, exits, exitcode, uncaught, calls, run, prev>>

(* line 34 *)
UnexpectedEchoStdout ==
    /\ pc = "L34"
    /\ out' = Append(out, print(result[1].stdout))
    /\ pc' = "L35"
    /\ UNCHANGED <<tool, result, exits, exitcode, uncaught, calls, run, prev>>

UnexpectedEcho ==
    /\ pc = "L34"
    /\ out' = Append(out, print(result[1].stderr))
    /\ pc' = "L35"
    /\ UNCHANGED <<tool, result, exits, exitcode, uncaught, calls, run, prev>>

(* line 35 *)
UnexpectedExitPropagates ==
    /\ pc = "L35"
    /\ exits' = Append(exits, result[1].returncode)
    /\ exitcode' = <<result[1].returncode>>
    /\ pc' = "done"
    /\ UNCHANGED <<tool, result, out, uncaught, calls, run, prev>>

UnexpectedExitRetries ==
    /\ pc = "L35"
    /\ IF calls < 2
       THEN /\ pc' = "L18"
            /\ UNCHANGED <<exits, exitcode>>
       ELSE /\ exits' = Append(exits, 1)
            /\ exitcode' = <<1>>
            /\ pc' = "done"
    /\ UNCHANGED <<tool, result, out, uncaught, calls, run, prev>>

UnexpectedExit ==
    /\ pc = "L35"
    /\ exits' = Append(exits, 1)
    /\ exitcode' = <<1>>
    /\ pc' = "done"
    /\ UNCHANGED <<tool, result, out, uncaught, calls, run, prev>>

(* the function returns after line 31 and the module ends after line 39:
   the interpreter exits with status 0 *)
Return ==
    /\ pc = "ret"
    /\ exitcode' = <<0>>
    /\ pc' = "done"
    /\ UNCHANGED <<tool, result, out, exits, uncaught, calls, run, prev>>

(* lines 38-39: the script is started again, as a fresh process, against the
   same dependency graph *)
Observed == [result |-> result, out |-> out, exits |-> exits,
             exitcode |-> exitcode, uncaught |-> uncaught]

NextRunKeepsOutput ==
    /\ pc = "done"
    /\ run < MaxRuns
    /\ prev' = <<Observed>>
    /\ run' = run + 1
    /\ pc' = "L18"
    /\ result' = <<>>
    /\ exits' = <<>>
    /\ exitcode' = <<>>
    /\ uncaught' = <<>>
    /\ calls' = 0
    /\ UNCHANGED <<tool, out>>

NextRun ==
    /\ pc = "done"
    /\ run < MaxRuns
    /\ prev' = <<Observed>>
    /\ run' = run + 1
    /\ pc' = "L18"
    /\ result' = <<>>
    /\ out' = <<>>
    /\ exits' = <<>>
    /\ exitcode' = <<>>
    /\ uncaught' = <<>>
    /\ calls' = 0
    /\ UNCHANGED tool

Next ==
    \/ RunCargo
    \/ RunCargoRaises
    \/ ForbiddenStatus
    \/ ForbiddenEcho
    \/ ForbiddenExit
    \/ NotZero
    \/ AbsentStatus
    \/ UnexpectedStatus
    \/ UnexpectedEcho
    \/ UnexpectedExit
    \/ Return
    \/ NextRun

Spec == Init /\ [][Next]_vars

----------------------------------------------------------------------------
(* What a terminated run is expected to have done, written out without the
   operators of the model above. *)
Done == pc = "done"
Got == result # <<>>

StderrHasNotFound(text) ==
    \E i \in 1..Len(text) : \E j \in i..Len(text) :
        /\ j - i = 2
        /\ text[i] = "package ID specification "
        /\ text[i + 1] = "'openssl'"
        /\ text[j] = " did not match any packages"

StatusLine(color, message) ==
    [by |-> "colored_print", text |-> <<color, message, "\\033[0m">>]

ForbiddenLine == StatusLine("\\033[91m", "Error: openssl is part of the dependencies tree")
AbsentLine == StatusLine("\\033[92m", "Success: openssl is not part of the dependencies tree.")
UnexpectedLine == StatusLine("\\033[91m", "Error: Unexpected error message.")

Plain(text) == [by |-> "print", text |-> text]

ColouredLines == {i \in DOMAIN out : out[i].by = "colored_print"}
EchoedTexts == {out[i].text : i \in {k \in DOMAIN out : out[k].by = "print"}}
ColourCodes == {"\\033[91m", "\\033[92m", "\\033[0m"}

ForbiddenCase == Got /\ result[1].returncode = 0
AbsentCase == Got /\ result[1].returncode # 0 /\ StderrHasNotFound(result[1].stderr)
UnexpectedCase == Got /\ result[1].returncode # 0 /\ ~StderrHasNotFound(result[1].stderr)

(* C1: when the tool exits 0, whatever its stdout and stderr, the run prints
   the red "openssl is part of the dependencies tree" line, then the tool's
   captured standard output, and ends with exit code 1. *)
C1_ForbiddenOutcome ==
    (Done /\ ForbiddenCase) =>
        /\ out = <<ForbiddenLine, Plain(result[1].stdout)>>
        /\ exits = <<1>>
        /\ exitcode = <<1>>

C1_Witness ==
    /\ Done /\ Got
    /\ result[1].returncode = 0
    /\ result[1].stdout = <<"openssl v0.10.0">>
    /\ result[1].stderr = <<"error: ">>
    /\ Len(out) = 2
    /\ out[2].text = <<"openssl v0.10.0">>

(* C2: when the tool exits non-zero and its standard error contains the
   not-found text anywhere, the run prints the green success line, never calls
   sys.exit, and the process ends with exit code 0. *)
C2_AbsentOutcome ==
    /\ AbsentCase => exits = <<>>
    /\ (Done /\ AbsentCase) =>
        /\ out = <<AbsentLine>>
        /\ exitcode = <<0>>

C2_Witness ==
    /\ Done /\ Got
    /\ result[1].returncode = 101
    /\ result[1].stderr = <<"error: ", "package ID specification ", "'openssl'",
                            " did not match any packages">>
    /\ out = <<AbsentLine>>
    /\ exitcode = <<0>>

(* C3: when the tool exits non-zero and its standard error does not contain
   the not-found text, the run prints the red "Unexpected error message."
   line, then the raw standard error, and ends with exit code 1. *)
C3_UnexpectedOutcome ==
    (Done /\ UnexpectedCase) =>
        /\ out = <<UnexpectedLine, Plain(result[1].stderr)>>
        /\ exits = <<1>>
        /\ exitcode = <<1>>

C3_Witness ==
    /\ Done /\ Got
    /\ result[1].returncode = 127
    /\ result[1].stdout = <<"openssl v0.10.0">>
    /\ result[1].stderr = <<"command not found">>
    /\ Len(out) = 2
    /\ out[2].text = <<"command not found">>

(* C4: every failure of the external query other than "package not found",
   the tool being missing from the path included, ends as the UnexpectedError
   outcome: red status line, raw error text, exit code 1; no run ends outside
   Forbidden, Absent and UnexpectedError. *)
C4_EveryFailureIsUnexpectedError ==
    (Done /\ ~ForbiddenCase /\ ~AbsentCase) =>
        /\ Len(out) = 2
        /\ out[1] = UnexpectedLine
        /\ out[2].by = "print"
        /\ exitcode = <<1>>

(* C5: a terminated run has exit code 0 or 1; it is 0 exactly in the Absent
   case, and the tool's own exit status is never passed on. *)
C5_ExitCode ==
    Done =>
        /\ exitcode \in {<<0>>, <<1>>}
        /\ (exitcode = <<0>>) <=> AbsentCase

C5_Witness ==
    /\ Done /\ Got
    /\ result[1].returncode = 101
    /\ result[1].stderr = <<>>
    /\ exitcode = <<1>>

(* C6: a run that got a result from the external call ends in exactly one of
   the three outcomes, after that single call, with exactly one coloured
   status line printed. *)
C6_ExactlyOneOutcome ==
    (Done /\ Got) =>
        /\ calls = 1
        /\ Cardinality(ColouredLines) = 1
        /\ out[1] \in {ForbiddenLine, AbsentLine, UnexpectedLine}
        /\ (out[1] = ForbiddenLine) <=> ForbiddenCase
        /\ (out[1] = AbsentLine) <=> AbsentCase
        /\ (out[1] = UnexpectedLine) <=> UnexpectedCase

C6_Witness ==
    /\ Done /\ Got
    /\ result[1].returncode = 1
    /\ result[1].stderr = <<"package ID specification ", "'openssl'",
                            " did not match any packages">>
    /\ Cardinality(ColouredLines) = 1

(* C7: two runs that receive the same result from the tool print the same
   text, make the same sys.exit calls and end with the same exit code, and a
   new run starts with nothing left over from the one before. *)
C7_Deterministic ==
    /\ (pc = "L18") => (result = <<>> /\ out = <<>> /\ exits = <<>> /\ calls = 0)
    /\ (Done /\ Got /\ prev # <<>>) =>
        (prev[1].result = result =>
            /\ prev[1].out = out
            /\ prev[1].exits = exits
            /\ prev[1].exitcode = exitcode)

C7_Witness ==
    /\ Done /\ Got
    /\ run = 2
    /\ prev # <<>>
    /\ prev[1].result = result
    /\ prev[1].out = out
    /\ Len(out) = 2

(* C8: a run issues the external call exactly once, before any output, never
   again whatever the outcome, and a failing run exits right after its two
   lines are printed. *)
C8_SingleCall ==
    /\ calls <= 1
    /\ (out # <<>>) => (calls = 1)
    /\ Done => (calls = 1)
    /\ (pc \in {"L27", "L35"}) => (Len(out) = 2 /\ out[2].by = "print")
    /\ (exits # <<>>) => (Done /\ Len(out) = 2 /\ out[2].by = "print")

C8_Witness ==
    /\ Done /\ Got
    /\ calls = 1
    /\ exits = <<1>>
    /\ result[1].returncode = 1
    /\ Len(out) = 2

(* C9: the status line comes first and is colour code + message + reset code
   (red for both failures, green for Absent); the captured tool text follows
   it, unchanged and without colour codes, before the process exits. *)
C9_OutputFraming ==
    /\ (out # <<>>) =>
        /\ out[1].by = "colored_print"
        /\ Len(out[1].text) = 3
        /\ out[1].text[1] = (IF AbsentCase THEN "\\033[92m" ELSE "\\033[91m")
        /\ out[1].text[3] = "\\033[0m"
    /\ (Len(out) >= 2) =>
        /\ Len(out) = 2
        /\ ~AbsentCase
        /\ out[2] = Plain(IF ForbiddenCase THEN result[1].stdout ELSE result[1].stderr)
        /\ \A i \in DOMAIN out[2].text : out[2].text[i] \notin ColourCodes
    /\ (exits # <<>>) => (Len(out) = 2)

C9_Witness ==
    /\ Done
    /\ Len(out) = 2
    /\ out[1].text = <<"\\033[91m", "Error: Unexpected error message.", "\\033[0m">>
    /\ out[2].text = <<"error: ", "command not found">>

(* C10: the exit status is looked at first: exit status 0 with the not-found
   text on standard error is Forbidden (exit code 1), never Absent; and only
   the deciding stream is echoed: stdout in Forbidden, stderr in
   UnexpectedError, nothing in Absent. *)
C10_StatusBeforeStderr ==
    /\ (Done /\ ForbiddenCase /\ StderrHasNotFound(result[1].stderr)) =>
        /\ out[1] = ForbiddenLine
        /\ AbsentLine \notin {out[i] : i \in DOMAIN out}
        /\ exitcode = <<1>>
    /\ (Done /\ ForbiddenCase) => EchoedTexts = {result[1].stdout}
    /\ (Done /\ UnexpectedCase) => EchoedTexts = {result[1].stderr}
    /\ (Done /\ AbsentCase) => EchoedTexts = {}

C10_Witness ==
    /\ Done /\ Got
    /\ result[1].returncode = 0
    /\ StderrHasNotFound(result[1].stderr)
    /\ result[1].stdout # result[1].stderr
    /\ exitcode = <<1>>
    /\ EchoedTexts = {result[1].stdout}

====
